---- MODULE Spec2Model ----
(***************************************************************************)
(* Data-access core of the CS2 e-sport management system: the command-line *)
(* program (src/main.py) and the windowed program (main_gui.py) working on *)
(* one relational store with the tables USERS, TEAMS, PLAYERS, TOURNAMENTS *)
(* and MATCHES.                                                            *)
(*                                                                         *)
(* Values.  Every stored value is an integer.  NULL stands for SQL NULL /  *)
(* Python None, SqlTrue and SqlFalse for the TINYINT values of TRUE and    *)
(* FALSE, identifiers are 1, 2, ...; a text value is the code of a string  *)
(* (StrOf gives its characters where a statement looks inside the text).   *)
(*                                                                         *)
(* Store.  db[t] maps the primary keys present in table t to rows, a row   *)
(* maps every column of t to a value.  The store may reject any statement  *)
(* (constraint, lock, lost packet): every statement an operation issues    *)
(* carries its own outcome, chosen freely.  Referential actions of the     *)
(* schema (which is not part of the sources) are not modelled: a rejected  *)
(* statement stands for RESTRICT.                                          *)
(***************************************************************************)
EXTENDS Integers, Sequences, FiniteSets, TLC

VARIABLES
    db,                 \* the store: table name -> (primary key -> row)
    nextId,             \* the store's AUTO_INCREMENT counter of every table
    last,               \* the operation that ran last: what it issued and returned
    current_table,      \* CS2EsportApp.current_table
    teams_cache,        \* CS2EsportApp.teams_cache
    tournaments_cache,  \* CS2EsportApp.tournaments_cache
    connection,         \* Database.connection: "none", "open" or "closed"
    cursor,             \* Database.cursor: "none", "open" or "closed"
    pc,                 \* where the program is: "start", "menu" or "ended"
    file                \* the file an export wrote last

vars == <<db, nextId, last, current_table, teams_cache, tournaments_cache,
          connection, cursor, pc, file>>
gui == <<current_table, teams_cache, tournaments_cache>>
run == <<connection, cursor, pc, file>>

-----------------------------------------------------------------------------
(* Bounds of the model *)

MaxTeams == 1
MaxPlayers == 2

-----------------------------------------------------------------------------
(* Values *)

NULL == -1
SqlFalse == 0
SqlTrue == 1

\* Texts that are no number: the empty string, the string 'None' and the
\* first entry of the optional winner pick-list, "-- Kein Gewinner --".
EmptyStr == -2
NoneStr == -3
NoWinnerText == -4

\* Truth value of a Python string or None: the empty string and None are false.
NonEmpty(v) == v \notin {NULL, EmptyStr}

\* Kinds of values, by code.  What the connector hands out for a DATE, a
\* DATETIME and a DECIMAL column (date, datetime and Decimal objects), bytes,
\* floats, and the texts that say a date, a date-time, a float or a whole
\* number.  Every other code is a whole number (0 .. 9) or a plain text.
Ints == 0 .. 9
Dates == 40 .. 49
DateTexts == 50 .. 59
Datetimes == 60 .. 69
DatetimeTexts == 70 .. 79
Decimals == 80 .. 89
Floats == 90 .. 99
IntTexts == 100 .. 109
Bytes == 111 .. 119
FloatTexts == 120 .. 129

\* date.isoformat / datetime.isoformat, float(Decimal), bytes.decode, and
\* str of a whole number, a float, a date.
isoformat(v) == v + 10
ToFloat(v) == v + 10
decode(v) == v - 100
StrOfInt(v) == v + 100
StrOfFloat(v) == v + 30

\* An uncaught exception, where a return value would be.
Raised == -9

\* No file written yet.
NoFile == <<>>

-----------------------------------------------------------------------------
(* Schema, as the statements of the two programs name it *)

Tables == {"USERS", "TEAMS", "PLAYERS", "TOURNAMENTS", "MATCHES"}

PK(t) ==
    CASE t = "USERS" -> "user_id"
      [] t = "TEAMS" -> "team_id"
      [] t = "PLAYERS" -> "player_id"
      [] t = "TOURNAMENTS" -> "tournament_id"
      [] t = "MATCHES" -> "match_id"

ImportCols(t) ==
    CASE t = "USERS" -> <<"username", "password_hash", "role", "email">>
      [] t = "TEAMS" -> <<"team_name", "abbreviation", "country", "coach",
                          "founded_date", "is_active">>
      [] t = "PLAYERS" -> <<"team_id", "nickname", "real_name", "nationality",
                            "role", "birth_date", "is_active">>
      [] t = "TOURNAMENTS" -> <<"tournament_name", "location", "start_date",
                                "end_date", "prize_pool", "tier", "status">>
      [] t = "MATCHES" -> <<"tournament_id", "team1_id", "team2_id",
                            "score_team1", "score_team2", "match_date",
                            "best_of", "stage", "winner_team_id">>

Range(s) == {s[i] : i \in DOMAIN s}

Columns(t) ==
    {PK(t)} \cup Range(ImportCols(t))
            \cup (IF t = "USERS" THEN {"created_at", "last_login"} ELSE {})
            \cup (IF t = "PLAYERS" THEN {"first_name", "last_name"} ELSE {})

DefaultRow(t, id) ==
    [c \in Columns(t) |->
        IF c = PK(t) THEN id
        ELSE IF c = "is_active" THEN SqlTrue
        ELSE NULL]

-----------------------------------------------------------------------------
(* Statements and the store's execution of one statement *)

Insert(t, cols, params) ==
    [kind |-> "INSERT", table |-> t, cols |-> cols, params |-> params]
Update(t, cols, params) ==
    [kind |-> "UPDATE", table |-> t, cols |-> cols, params |-> params]
Delete(t, params) ==
    [kind |-> "DELETE", table |-> t, cols |-> <<>>, params |-> params]

Key(stmt) == stmt.params[Len(stmt.params)]

\* The columns that hold a number: keys, references, scores, flags, money.
NumericCols ==
    {"user_id", "team_id", "player_id", "tournament_id", "match_id",
     "team1_id", "team2_id", "winner_team_id", "score_team1", "score_team2",
     "is_active", "prize_pool"}

\* A statement the store can run at all: its columns exist, none is named
\* twice, the parameters match the placeholders, and no numeric column is
\* given a text that is no number.
WellFormed(stmt) ==
    /\ Range(stmt.cols) \subseteq Columns(stmt.table)
    /\ \A i \in DOMAIN stmt.cols :
           (stmt.cols[i] \in NumericCols /\ i \in DOMAIN stmt.params) =>
               stmt.params[i] \notin {EmptyStr, NoneStr, NoWinnerText}
    /\ \A i, j \in DOMAIN stmt.cols : stmt.cols[i] = stmt.cols[j] => i = j
    /\ stmt.kind = "INSERT" => Len(stmt.params) = Len(stmt.cols)
    /\ stmt.kind = "UPDATE" => Len(stmt.params) = Len(stmt.cols) + 1
    /\ stmt.kind = "DELETE" => Len(stmt.params) = 1

DateCols == {"founded_date", "birth_date", "start_date", "end_date"}
DatetimeCols == {"match_date", "created_at", "last_login"}
DecimalCols == {"prize_pool"}

\* What the store keeps when a column is given a value: a text that says
\* a date, a date-time or a number becomes that date, date-time or number
\* in a column of that type; a float becomes a fixed-point number.
Coerce(c, v) ==
    IF c \in DateCols /\ v \in DateTexts THEN v - 10
    ELSE IF c \in DatetimeCols /\ v \in DatetimeTexts THEN v - 10
    ELSE IF c \in DecimalCols /\ v \in Floats THEN v - 10
    ELSE IF c \in DecimalCols /\ v \in FloatTexts THEN v - 40
    ELSE IF c \in NumericCols /\ v \in IntTexts THEN v - 100
    ELSE v

Assigned(row, stmt) ==
    [c \in DOMAIN row |->
        IF \E i \in DOMAIN stmt.cols : stmt.cols[i] = c
        THEN Coerce(c, stmt.params[CHOOSE i \in DOMAIN stmt.cols :
                                      stmt.cols[i] = c])
        ELSE row[c]]

Apply(d, n, stmt) ==
    LET t == stmt.table
        rows == d[t]
    IN  CASE stmt.kind = "INSERT" ->
               [d EXCEPT ![t] =
                   [k \in DOMAIN rows \cup {n[t]} |->
                       IF k = n[t] THEN Assigned(DefaultRow(t, n[t]), stmt)
                       ELSE rows[k]]]
          [] stmt.kind = "UPDATE" ->
               [d EXCEPT ![t] =
                   [k \in DOMAIN rows |->
                       IF k = Key(stmt) THEN Assigned(rows[k], stmt)
                       ELSE rows[k]]]
          [] stmt.kind = "DELETE" ->
               [d EXCEPT ![t] =
                   [k \in DOMAIN rows \ {Key(stmt)} |-> rows[k]]]

-----------------------------------------------------------------------------
(* Connection manager of the command-line program (class Database) *)

\* What execute leaves in the store: the statement's effect, committed, or the
\* state before it, rolled back.
Accepted(stmt, ok) == ok /\ WellFormed(stmt)

Database_execute(d, n, stmt, ok) ==
    IF Accepted(stmt, ok) THEN Apply(d, n, stmt) ELSE d

Counted(n, stmt, ok) ==
    IF Accepted(stmt, ok) /\ stmt.kind = "INSERT"
    THEN [n EXCEPT ![stmt.table] = @ + 1]
    ELSE n

\* fetch_all: the rows the SELECT yields (their keys), or the empty result
\* when the statement fails.
Database_fetch_all(selected, ok) == IF ok THEN selected ELSE {}

\* fetch_one by primary key: the row, or None (NoRow) when there is none or
\* the statement fails.
NoRow == <<>>

Database_fetch_one(d, t, id, ok) ==
    IF ok /\ id \in DOMAIN d[t] THEN d[t][id] ELSE NoRow

Bool(b) == IF b THEN SqlTrue ELSE SqlFalse

\* A write statement that went through Database.execute: the statement,
\* whether the store ran and committed it, and what execute returned: True or
\* False in the command-line program, None either way in the windowed one.
Issued(stmt, ok) ==
    [stmt |-> stmt, ok |-> Accepted(stmt, ok),
     ret |-> Bool(Accepted(stmt, ok))]

GuiIssued(stmt, ok) ==
    [stmt |-> stmt, ok |-> Accepted(stmt, ok), ret |-> NULL]

\* The record of one operation: its name, the key and the other arguments it
\* was given, what it returned, the statements it sent to the store and the
\* number it reported.
Ran(op, id, args, ret, stmts, n) ==
    [op |-> op, id |-> id, args |-> args, ret |-> ret, stmts |-> stmts,
     n |-> n]

-----------------------------------------------------------------------------
(* CRUDOperations: the dynamic UPDATE of the four updatable entities *)

Allowed(t) ==
    CASE t = "USERS" ->
            {"username", "email", "role", "password_hash", "last_login"}
      [] t = "TEAMS" ->
            {"team_name", "abbreviation", "country", "coach", "founded_date",
             "is_active"}
      [] t = "PLAYERS" ->
            {"nickname", "team_id", "real_name", "nationality", "role",
             "birth_date", "is_active"}
      [] t = "TOURNAMENTS" ->
            {"tournament_name", "location", "start_date", "end_date",
             "prize_pool", "tier", "status"}

\* kw is the keyword arguments in call order: a sequence of <<key, value>>.
Unfiltered(t, kw) == kw

Filtered(t, kw) == SelectSeq(kw, LAMBDA p : p[1] \in Allowed(t))

\* The statement with the key bound first and the values after it.
UpdateStatementKeyFirst(t, id, updates) ==
    Update(t, [i \in DOMAIN updates |-> updates[i][1]],
              <<id>> \o [i \in DOMAIN updates |-> updates[i][2]])

UpdateStatement(t, id, updates) ==
    Update(t, [i \in DOMAIN updates |-> updates[i][1]],
              [i \in DOMAIN updates |-> updates[i][2]] \o <<id>>)

\* An update that goes on to its statement whatever is left of the field map.
NothingToUpdateNever(updates) == FALSE

\* if not updates: return False
NothingToUpdate(updates) == updates = <<>>

update_entity(op, t, id, kw, ok) ==
    LET updates == Filtered(t, kw)
        q == UpdateStatement(t, id, updates)
    IN  IF NothingToUpdate(updates)
        THEN /\ last' = Ran(op, id, kw, SqlFalse, <<>>, NULL)
             /\ UNCHANGED <<db, nextId, gui, run>>
        ELSE /\ db' = Database_execute(db, nextId, q, ok)
             /\ last' = Ran(op, id, kw, Bool(Accepted(q, ok)),
                            <<Issued(q, ok)>>, NULL)
             /\ UNCHANGED <<nextId, gui, run>>

update_user(user_id, kw, ok) ==
    update_entity("update_user", "USERS", user_id, kw, ok)
update_team(team_id, kw, ok) ==
    update_entity("update_team", "TEAMS", team_id, kw, ok)
update_player(player_id, kw, ok) ==
    update_entity("update_player", "PLAYERS", player_id, kw, ok)
update_tournament(tournament_id, kw, ok) ==
    update_entity("update_tournament", "TOURNAMENTS", tournament_id, kw, ok)

-----------------------------------------------------------------------------
(* CRUDOperations: teams and players *)

\* An INSERT through create_*: the new key on success, None on failure.
create_row(op, args, q, ok) ==
    /\ db' = Database_execute(db, nextId, q, ok)
    /\ nextId' = Counted(nextId, q, ok)
    /\ last' = Ran(op, NULL, args,
                   IF Accepted(q, ok) THEN nextId[q.table] ELSE NULL,
                   <<Issued(q, ok)>>, NULL)
    /\ UNCHANGED <<gui, run>>

create_team(team_name, ok) ==
    /\ nextId["TEAMS"] <= MaxTeams
    /\ create_row("create_team", <<team_name>>,
                  Insert("TEAMS",
                         <<"team_name", "abbreviation", "country", "coach",
                           "founded_date">>,
                         <<team_name, NULL, NULL, NULL, NULL>>), ok)

create_player(nickname, team_id, ok) ==
    /\ nextId["PLAYERS"] <= MaxPlayers
    /\ create_row("create_player", <<nickname, team_id>>,
                  Insert("PLAYERS",
                         <<"nickname", "team_id", "real_name", "nationality",
                           "role", "birth_date">>,
                         <<nickname, team_id, NULL, NULL, NULL, NULL>>), ok)

get_team_by_id(d, id, ok) == Database_fetch_one(d, "TEAMS", id, ok)
get_player_by_id(d, id, ok) == Database_fetch_one(d, "PLAYERS", id, ok)

\* A listing without the test of the active flag.
ListedAll(row) == TRUE

\* WHERE is_active=TRUE
Listed(row) == row["is_active"] = SqlTrue

get_all_teams(d, ok) ==
    Database_fetch_all({k \in DOMAIN d["TEAMS"] : Listed(d["TEAMS"][k])}, ok)

\* The LEFT JOIN on TEAMS adds the team's name to a player row and neither
\* drops nor repeats a player.
get_all_players(d, ok) ==
    Database_fetch_all({p \in DOMAIN d["PLAYERS"] : Listed(d["PLAYERS"][p])},
                       ok)

get_players_by_team(d, team_id, ok) ==
    Database_fetch_all(
        {p \in DOMAIN d["PLAYERS"] :
            /\ d["PLAYERS"][p]["team_id"] = team_id
            /\ d["PLAYERS"][p]["is_active"] = SqlTrue}, ok)

\* The dependency check of delete_team: the players that reference the team.
DeleteTeamCheck(d, id, ok) ==
    Database_fetch_all(
        {p \in DOMAIN d["PLAYERS"] : d["PLAYERS"][p]["team_id"] = id}, ok)

DeleteTeamAlwaysSoft(id, players) ==
    Update("TEAMS", <<"is_active">>, <<SqlFalse, id>>)

DeleteTeamStatement(id, players) ==
    IF players # {}
    THEN Update("TEAMS", <<"is_active">>, <<SqlFalse, id>>)
    ELSE Delete("TEAMS", <<id>>)

delete_team(id, rok, ok) ==
    LET players == DeleteTeamCheck(db, id, rok)
        q == DeleteTeamStatement(id, players)
    IN  /\ db' = Database_execute(db, nextId, q, ok)
        /\ last' = Ran("delete_team", id, <<>>, Bool(Accepted(q, ok)),
                       <<Issued(q, ok)>>,
                       IF players # {} THEN Cardinality(players) ELSE NULL)
        /\ UNCHANGED <<nextId, gui, run>>

DeletePlayerHard(id) == Delete("PLAYERS", <<id>>)

DeletePlayerStatement(id) ==
    Update("PLAYERS", <<"is_active">>, <<SqlFalse, id>>)

delete_player(id, ok) ==
    LET q == DeletePlayerStatement(id)
    IN  /\ db' = Database_execute(db, nextId, q, ok)
        /\ last' = Ran("delete_player", id, <<>>, Bool(Accepted(q, ok)),
                       <<Issued(q, ok)>>, NULL)
        /\ UNCHANGED <<nextId, gui, run>>

-----------------------------------------------------------------------------
(* CRUDOperations and the menu: matches *)

MaxMatches == 1

SelfMatchNever(team1_id, team2_id) == FALSE

SelfMatch(team1_id, team2_id) == team1_id = team2_id

create_match(tournament_id, team1_id, team2_id, match_date, best_of, stage, ok) ==
    LET args == <<tournament_id, team1_id, team2_id>>
    IN  IF SelfMatch(team1_id, team2_id)
        THEN /\ last' = Ran("create_match", NULL, args, NULL, <<>>, NULL)
             /\ UNCHANGED <<db, nextId, gui, run>>
        ELSE /\ nextId["MATCHES"] <= MaxMatches
             /\ create_row("create_match", args,
                    Insert("MATCHES",
                           <<"tournament_id", "team1_id", "team2_id",
                             "match_date", "best_of", "stage">>,
                           <<tournament_id, team1_id, team2_id, match_date,
                             best_of, stage>>), ok)

\* get_match_by_id joins the match with its tournament and its two teams: a
\* match whose tournament or team row is missing is not returned.
get_match_by_id(d, id, ok) ==
    IF /\ ok
       /\ id \in DOMAIN d["MATCHES"]
       /\ d["MATCHES"][id]["tournament_id"] \in DOMAIN d["TOURNAMENTS"]
       /\ d["MATCHES"][id]["team1_id"] \in DOMAIN d["TEAMS"]
       /\ d["MATCHES"][id]["team2_id"] \in DOMAIN d["TEAMS"]
    THEN d["MATCHES"][id]
    ELSE NoRow

update_match_score(match_id, score1, score2, winner_id) ==
    Update("MATCHES", <<"score_team1", "score_team2", "winner_team_id">>,
           <<score1, score2, winner_id, match_id>>)

WinnerFirstOnTie(m, s1, s2) ==
    IF s1 >= s2 THEN m["team1_id"] ELSE m["team2_id"]

Winner(m, s1, s2) ==
    IF s1 > s2 THEN m["team1_id"]
    ELSE IF s2 > s1 THEN m["team2_id"]
    ELSE NULL

\* Menu MATCHES, "Ergebnis eintragen".
record_result(mid, s1, s2, rok, ok) ==
    LET m == get_match_by_id(db, mid, rok)
        q == update_match_score(mid, s1, s2, Winner(m, s1, s2))
    IN  IF m = NoRow
        THEN /\ last' = Ran("record_result", mid, <<s1, s2>>, NULL, <<>>, NULL)
             /\ UNCHANGED <<db, nextId, gui, run>>
        ELSE /\ db' = Database_execute(db, nextId, q, ok)
             /\ last' = Ran("record_result", mid, <<s1, s2>>,
                            Bool(Accepted(q, ok)), <<Issued(q, ok)>>, NULL)
             /\ UNCHANGED <<nextId, gui, run>>

-----------------------------------------------------------------------------
(* DataImporter._import: one INSERT per payload row *)

\* A payload row maps the keys it has to values; a payload is a sequence of
\* rows, oks the store's outcome for the statement of each row.
ImportValue(v) == IF v \in {EmptyStr, NoneStr} THEN NULL ELSE v

ImportStatement(t, row) ==
    LET vcols == SelectSeq(ImportCols(t), LAMBDA c : c \in DOMAIN row)
    IN  Insert(t, vcols, [i \in DOMAIN vcols |-> ImportValue(row[vcols[i]])])

ImportStart(d, n) == [db |-> d, nextId |-> n, imported |-> 0, stmts |-> <<>>]

ImportRowCountsAll(acc, t, row, ok) ==
    LET q == ImportStatement(t, row)
    IN  [db |-> Database_execute(acc.db, acc.nextId, q, ok),
         nextId |-> Counted(acc.nextId, q, ok),
         imported |-> acc.imported + 1,
         stmts |-> Append(acc.stmts, Issued(q, ok))]

ImportRow(acc, t, row, ok) ==
    LET q == ImportStatement(t, row)
    IN  IF q.cols = <<>> THEN acc
        ELSE [db |-> Database_execute(acc.db, acc.nextId, q, ok),
              nextId |-> Counted(acc.nextId, q, ok),
              imported |-> acc.imported + (IF Accepted(q, ok) THEN 1 ELSE 0),
              stmts |-> Append(acc.stmts, Issued(q, ok))]

RECURSIVE ImportRows(_, _, _, _, _)
ImportRows(acc, t, data, oks, i) ==
    IF i > Len(data) THEN acc
    ELSE ImportRows(ImportRow(acc, t, data[i], oks[i]), t, data, oks, i + 1)

DataImporter_import(data, t, oks) ==
    IF data = <<>> \/ t \notin Tables
    THEN /\ last' = Ran("import", NULL, data, 0, <<>>, NULL)
         /\ UNCHANGED <<db, nextId, gui, run>>
    ELSE LET end == ImportRows(ImportStart(db, nextId), t, data, oks, 1)
         IN  /\ db' = end.db
             /\ nextId' = end.nextId
             /\ last' = Ran("import", NULL, data, end.imported, end.stmts,
                            Len(data))
             /\ UNCHANGED <<gui, run>>

-----------------------------------------------------------------------------
(* DataExporter, and the import of the file it wrote *)

RECURSIVE Ascending(_)
Ascending(keys) ==
    IF keys = {} THEN <<>>
    ELSE LET k == CHOOSE x \in keys : \A y \in keys : x <= y
         IN  <<k>> \o Ascending(keys \ {k})

\* SELECT * FROM t through fetch_all: the rows, in key order, or [].
SelectAll(d, t, ok) ==
    LET keys == Ascending(Database_fetch_all(DOMAIN d[t], ok))
    IN  [i \in DOMAIN keys |-> d[t][keys[i]]]

DataExporter_serialize(v) ==
    IF v \in Datetimes THEN isoformat(v)
    ELSE IF v \in Decimals THEN ToFloat(v)
    ELSE IF v \in Bytes THEN decode(v)
    ELSE v

SerializedRow(row) == [c \in DOMAIN row |-> DataExporter_serialize(row[c])]

\* What json.dump can write: None, numbers and texts.
JsonWritable(v) == v \notin Dates \cup Datetimes \cup Decimals \cup Bytes

\* What csv.DictWriter writes for a value: nothing for None, else str(v).
CsvText(v) ==
    IF v = NULL THEN EmptyStr
    ELSE IF v \in Ints THEN StrOfInt(v)
    ELSE IF v \in Floats THEN StrOfFloat(v)
    ELSE IF v \in Dates THEN isoformat(v)
    ELSE v

\* A file: its format, the table it was written for, its header (CSV), its
\* rows as written, whether it was written to the end, and the rows that
\* were read from the store for it.
File(fmt, table, header, rows, whole, data) ==
    [fmt |-> fmt, table |-> table, header |-> header, rows |-> rows,
     whole |-> whole, data |-> data]

FilePath == 1

\* A handle closed whether or not there was one: disconnect without its tests.
ClosedUntested(handle) == "closed"

\* disconnect closes the cursor if there is one, then the connection if there
\* is one; the attributes keep what they held.
Closed(handle) == IF handle = "none" THEN "none" ELSE "closed"

Database_disconnect ==
    /\ cursor' = Closed(cursor)
    /\ connection' = Closed(connection)

\* An uncaught exception that ends the run without a finally clause.
CrashWithoutFinally ==
    /\ pc' = "ended"
    /\ UNCHANGED <<connection, cursor>>

\* An uncaught exception ends the command-line program: CLI.run leaves its
\* loop through finally, which disconnects.
Crash ==
    /\ pc' = "ended"
    /\ Database_disconnect

export_to_json(table, data) ==
    LET rows == [i \in DOMAIN data |-> SerializedRow(data[i])]
        writable == \A i \in DOMAIN rows : \A c \in DOMAIN rows[i] :
                        JsonWritable(rows[i][c])
    IN  IF writable
        THEN /\ file' = File("json", table, {}, rows, TRUE, data)
             /\ last' = Ran("export_table", NULL, <<table, "json">>, FilePath,
                            <<>>, Len(data))
             /\ UNCHANGED <<connection, cursor, pc>>
        ELSE /\ file' = File("json", table, {}, <<>>, FALSE, data)
             /\ last' = Ran("export_table", NULL, <<table, "json">>, Raised,
                            <<>>, NULL)
             /\ Crash

\* A CSV file without its header line.
NoCsvHeader(data) == {}

\* fieldnames=data[0].keys()
CsvHeader(data) == DOMAIN data[1]

export_to_csv(table, data) ==
    IF data = <<>>
    THEN /\ last' = Ran("export_table", NULL, <<table, "csv">>, EmptyStr,
                        <<>>, NULL)
         /\ UNCHANGED run
    ELSE /\ file' = File("csv", table, CsvHeader(data),
                         [i \in DOMAIN data |->
                             [c \in DOMAIN data[i] |->
                                 CsvText(DataExporter_serialize(data[i][c]))]],
                         TRUE, data)
         /\ last' = Ran("export_table", NULL, <<table, "csv">>, FilePath,
                        <<>>, Len(data))
         /\ UNCHANGED <<connection, cursor, pc>>

export_table(table, fmt, rok) ==
    /\ IF table \notin Tables
       THEN /\ last' = Ran("export_table", NULL, <<table, fmt>>, EmptyStr,
                           <<>>, NULL)
            /\ UNCHANGED run
       ELSE IF fmt = "json"
            THEN export_to_json(table, SelectAll(db, table, rok))
            ELSE export_to_csv(table, SelectAll(db, table, rok))
    /\ UNCHANGED <<db, nextId, gui>>

\* import_from_json / import_from_csv on the file written last: a file that
\* is missing or cannot be parsed gives 0.
import_from_file(table, oks) ==
    IF file = NoFile \/ ~file.whole
    THEN /\ last' = Ran("import", NULL, <<>>, 0, <<>>, NULL)
         /\ UNCHANGED <<db, nextId, gui, run>>
    ELSE DataImporter_import(file.rows, table, oks)

delete_tournament(id, ok) ==
    LET q == Delete("TOURNAMENTS", <<id>>)
    IN  /\ db' = Database_execute(db, nextId, q, ok)
        /\ last' = Ran("delete_tournament", id, <<>>, Bool(Accepted(q, ok)),
                       <<Issued(q, ok)>>, NULL)
        /\ UNCHANGED <<nextId, gui, run>>

-----------------------------------------------------------------------------
(* The windowed program: caches, table switch, delete *)

TableOf(key) ==
    CASE key = "users" -> "USERS"
      [] key = "teams" -> "TEAMS"
      [] key = "players" -> "PLAYERS"
      [] key = "tournaments" -> "TOURNAMENTS"
      [] key = "matches" -> "MATCHES"

TableKeys == {"users", "teams", "players", "tournaments", "matches"}

\* Database.execute of the windowed program on a SELECT: the rows, or None.
\* The caches keep the selected columns of every row, or are empty when the
\* result is None or empty.
CacheOf(d, t, cols, ok) ==
    IF ok THEN {[c \in cols |-> d[t][k][c]] : k \in DOMAIN d[t]} ELSE {}

\* A refresh that reads the store as it was when the handler began.
refresh_caches_before(d, rok1, rok2) ==
    /\ teams_cache' =
          CacheOf(db, "TEAMS", {"team_id", "team_name", "abbreviation"}, rok1)
    /\ tournaments_cache' =
          CacheOf(db, "TOURNAMENTS", {"tournament_id", "tournament_name"}, rok2)

refresh_caches(d, rok1, rok2) ==
    /\ teams_cache' =
          CacheOf(d, "TEAMS", {"team_id", "team_name", "abbreviation"}, rok1)
    /\ tournaments_cache' =
          CacheOf(d, "TOURNAMENTS", {"tournament_id", "tournament_name"}, rok2)

switch_table(table_key, rok1, rok2) ==
    /\ current_table' = table_key
    /\ refresh_caches(db, rok1, rok2)
    /\ last' = Ran("switch_table", NULL, <<table_key>>, NULL, <<>>, NULL)
    /\ UNCHANGED <<db, nextId, run>>

\* delete_record on the row the user selected in the view and confirmed; the
\* view lists rows of the current table.
delete_record(record_id, ok, rok1, rok2) ==
    LET t == TableOf(current_table)
        q == Delete(t, <<record_id>>)
    IN  /\ record_id \in DOMAIN db[t]
        /\ db' = Database_execute(db, nextId, q, ok)
        /\ refresh_caches(db', rok1, rok2)
        /\ last' = Ran("delete_record", record_id, <<current_table>>, NULL,
                       <<GuiIssued(q, ok)>>, NULL)
        /\ UNCHANGED <<nextId, current_table, run>>

\* serialize_value: dates and date-times as ISO texts, Decimal as float.
serialize_value(v) ==
    IF v \in Dates \cup Datetimes THEN isoformat(v)
    ELSE IF v \in Decimals THEN ToFloat(v)
    ELSE v

\* export_csv of the current table to the file chosen in the dialog: execute
\* gives the rows, or None; nothing is written for None or no rows.
export_csv(rok) ==
    LET t == TableOf(current_table)
        data == SelectAll(db, t, rok)
    IN  /\ IF data = <<>>
           THEN /\ last' = Ran("export_csv", NULL, <<current_table>>, NULL,
                               <<>>, NULL)
                /\ UNCHANGED file
           ELSE /\ file' = File("csv", t, CsvHeader(data),
                                [i \in DOMAIN data |->
                                    [c \in DOMAIN data[i] |->
                                        CsvText(serialize_value(data[i][c]))]],
                                TRUE, data)
                /\ last' = Ran("export_csv", NULL, <<current_table>>, NULL,
                               <<>>, Len(data))
        /\ UNCHANGED <<db, nextId, gui, connection, cursor, pc>>

-----------------------------------------------------------------------------
(* The windowed program: the add / edit dialog *)

\* The form fields of a table, in the order of the form.
FormFields(key) ==
    CASE key = "users" -> <<"username", "password_hash", "role", "email">>
      [] key = "teams" -> <<"team_name", "abbreviation", "country", "coach",
                            "founded_date">>
      [] key = "players" -> <<"nickname", "first_name", "last_name",
                              "nationality", "role", "team_id", "birth_date">>
      [] key = "tournaments" -> <<"tournament_name", "location", "start_date",
                                  "end_date", "prize_pool", "tier", "status">>
      [] key = "matches" -> <<"tournament_id", "team1_id", "team2_id",
                              "score_team1", "score_team2", "match_date",
                              "best_of", "stage", "winner_team_id">>

IdFields == {"team_id", "team1_id", "team2_id", "winner_team_id",
             "tournament_id"}

\* The text of a widget is a code: the option "<id>: <name>" of a pick-list
\* is the code <id>, typed text is the code of what it says.  Only the
\* "<id>: <name>" options of the pick-lists contain a colon.
HasColon(text) == text >= 1
StartsWithDashes(text) == text = NoWinnerText
IdPart(text) == text

\* What save makes of the text of one field.
SaveValue(field, text) ==
    IF NonEmpty(text) /\ HasColon(text) /\ field \in IdFields
    THEN IF StartsWithDashes(text) THEN NULL ELSE IdPart(text)
    ELSE text

\* The values save collects, in form order, as <<field, value>>: every field
\* with a non-empty value, and winner_team_id as None when it is empty.
SaveValues(key, w) ==
    LET ff == FormFields(key)
        all == [i \in DOMAIN ff |-> <<ff[i], SaveValue(ff[i], w[ff[i]])>>]
        kept == SelectSeq(all, LAMBDA p :
                    NonEmpty(p[2]) \/ p[1] = "winner_team_id")
    IN  [i \in DOMAIN kept |->
            IF NonEmpty(kept[i][2]) THEN kept[i] ELSE <<kept[i][1], NULL>>]

SaveStatement(mode, t, id, values) ==
    LET cols == [i \in DOMAIN values |-> values[i][1]]
        params == [i \in DOMAIN values |-> values[i][2]]
    IN  IF mode = "Hinzufuegen"
        THEN Insert(t, cols, params)
        ELSE Update(t, cols, params \o <<id>>)

\* The dialog's save on the form content w; id is the key of the row the
\* dialog was opened on (edit), NULL when adding.  The caches are read twice
\* after the statement (refresh_caches, then refresh_view): what the second
\* read yields is what stays.
save(mode, id, w, ok, rok1, rok2) ==
    LET t == TableOf(current_table)
        values == SaveValues(current_table, w)
        q == SaveStatement(mode, t, id, values)
    IN  /\ mode = "Bearbeiten" => id \in DOMAIN db[t]
        /\ IF values = <<>>
           THEN /\ last' = Ran("save", id, <<mode>>, NULL, <<>>, NULL)
                /\ UNCHANGED <<db, nextId, gui, run>>
           ELSE /\ db' = Database_execute(db, nextId, q, ok)
                /\ nextId' = Counted(nextId, q, ok)
                /\ refresh_caches(db', rok1, rok2)
                /\ last' = Ran("save", id, <<mode>>, NULL, <<GuiIssued(q, ok)>>,
                               NULL)
                /\ UNCHANGED <<current_table, run>>

-----------------------------------------------------------------------------
(* The windowed program: import of a file into the current table *)

\* The keys a payload row may carry besides the columns of the import list.
OtherKeys == <<"is_admin", "created_at">>

\* The keys of a row without the primary key (row.pop(pk)), in one order.
KeysOf(row, t) ==
    SelectSeq(ImportCols(t) \o OtherKeys, LAMBDA c : c \in DOMAIN row)

\* import_json: the row as it is.  import_csv: empty texts become None.
CsvCleaned(v) == IF NonEmpty(v) THEN v ELSE NULL

GuiImportRow(acc, t, row, ok, csv) ==
    LET keys == KeysOf(row, t)
        vals == [i \in DOMAIN keys |->
                    IF csv THEN CsvCleaned(row[keys[i]]) ELSE row[keys[i]]]
        q == Insert(t, keys, vals)
        some == IF csv THEN \E i \in DOMAIN vals : NonEmpty(vals[i])
                       ELSE keys # <<>>
    IN  IF ~some THEN acc
        ELSE [db |-> Database_execute(acc.db, acc.nextId, q, ok),
              nextId |-> Counted(acc.nextId, q, ok),
              imported |-> acc.imported + 1,
              stmts |-> Append(acc.stmts, GuiIssued(q, ok))]

RECURSIVE GuiImportRows(_, _, _, _, _, _)
GuiImportRows(acc, t, data, oks, csv, i) ==
    IF i > Len(data) THEN acc
    ELSE GuiImportRows(GuiImportRow(acc, t, data[i], oks[i], csv), t, data,
                       oks, csv, i + 1)

gui_import(op, data, oks, csv, rok1, rok2) ==
    LET t == TableOf(current_table)
        end == GuiImportRows(ImportStart(db, nextId), t, data, oks, csv, 1)
    IN  /\ db' = end.db
        /\ nextId' = end.nextId
        /\ refresh_caches(db', rok1, rok2)
        /\ last' = Ran(op, NULL, data, end.imported, end.stmts, NULL)
        /\ UNCHANGED <<current_table, run>>

import_json(data, oks, rok1, rok2) ==
    gui_import("import_json", data, oks, FALSE, rok1, rok2)

import_csv(data, oks, rok1, rok2) ==
    gui_import("import_csv", data, oks, TRUE, rok1, rok2)

-----------------------------------------------------------------------------
(* The program on teams and players: both front ends on one store *)

EmptyStore == [t \in Tables |-> <<>>]

\* The program after a successful start: connected, at its menu.
Running ==
    /\ connection = "open"
    /\ cursor = "open"
    /\ pc = "menu"
    /\ file = NoFile

Init ==
    /\ db = EmptyStore
    /\ nextId = [t \in Tables |-> 1]
    /\ last = Ran("connect", NULL, <<>>, SqlTrue, <<>>, NULL)
    /\ current_table = "teams"
    /\ teams_cache = {}
    /\ tournaments_cache = {}
    /\ Running

TeamIds == 1 .. MaxTeams
PlayerIds == 1 .. MaxPlayers

\* The keyword arguments the callers of this run pass to update_team and
\* update_player.
TeamKw == {<<<<"is_active", v>>>> : v \in {SqlFalse, SqlTrue}}
PlayerKw ==
    {<<<<"team_id", v>>>> : v \in TeamIds} \cup {<<<<"is_active", SqlTrue>>>>}

Next ==
    \/ \E ok \in BOOLEAN : create_team(1, ok)
    \/ \E team_id \in TeamIds \cup {NULL}, ok \in BOOLEAN :
          create_player(1, team_id, ok)
    \/ \E id \in TeamIds, kw \in TeamKw, ok \in BOOLEAN : update_team(id, kw, ok)
    \/ \E id \in PlayerIds, kw \in PlayerKw, ok \in BOOLEAN :
          update_player(id, kw, ok)
    \/ \E id \in TeamIds, rok, ok \in BOOLEAN : delete_team(id, rok, ok)
    \/ \E id \in PlayerIds, ok \in BOOLEAN : delete_player(id, ok)

Spec == Init /\ [][Next]_vars

-----------------------------------------------------------------------------
(* The default listings of teams and players *)

\* A listing of the menus: the keys of the rows returned, and whether the
\* store answered the query.
listing(op, id, found, ok) ==
    /\ last' = Ran(op, id, <<>>, found, <<[ok |-> ok]>>, NULL)
    /\ UNCHANGED <<db, nextId, gui, run>>

list_teams == \E ok \in BOOLEAN :
    listing("get_all_teams", NULL, get_all_teams(db, ok), ok)

list_players == \E ok \in BOOLEAN :
    listing("get_all_players", NULL, get_all_players(db, ok), ok)

list_players_by_team == \E team_id \in TeamIds, ok \in BOOLEAN :
    listing("get_players_by_team", team_id,
            get_players_by_team(db, team_id, ok), ok)

NextList ==
    \/ Next
    \/ list_teams
    \/ list_players
    \/ list_players_by_team

SpecList == Init /\ [][NextList]_vars

\* C19: whatever was created, updated and deleted before, get_all_teams
\* returns active teams only, and every active team when the store answers
\* its query; get_all_players and get_players_by_team return active players
\* only.
C19_ListingsAreActive ==
    /\ last.op = "get_all_teams" =>
          /\ \A k \in last.ret :
                k \in DOMAIN db["TEAMS"] /\ db["TEAMS"][k]["is_active"] = SqlTrue
          /\ last.stmts[1].ok =>
                last.ret = {k \in DOMAIN db["TEAMS"] :
                               db["TEAMS"][k]["is_active"] = SqlTrue}
    /\ last.op \in {"get_all_players", "get_players_by_team"} =>
          \A p \in last.ret :
              /\ p \in DOMAIN db["PLAYERS"]
              /\ db["PLAYERS"][p]["is_active"] = SqlTrue

\* get_all_players returned a player while the store holds an inactive one.
C19_Witness ==
    /\ last.op = "get_all_players"
    /\ last.ret # {}
    /\ \E p \in DOMAIN db["PLAYERS"] : db["PLAYERS"][p]["is_active"] = SqlFalse

ListingOps == {"get_all_teams", "get_all_players", "get_players_by_team"}

\* C23: a read the store failed does not give its caller what a read that
\* found no row gives: the result of a failed fetch_all is not the empty
\* result.
C23_FailedReadIsTold ==
    (last.op \in ListingOps /\ ~last.stmts[1].ok) => last.ret # {}

-----------------------------------------------------------------------------
(* The dynamic UPDATE on a store that holds two rows of one entity *)

MaxKw == 2

UpdatableTables == {"USERS", "TEAMS", "PLAYERS", "TOURNAMENTS"}

TwoRows(t) ==
    [EmptyStore EXCEPT ![t] = [k \in {1, 2} |-> DefaultRow(t, k)]]

InitUpdate ==
    /\ \E t \in UpdatableTables : db = TwoRows(t)
    /\ nextId = [t \in Tables |-> IF db[t] = <<>> THEN 1 ELSE 3]
    /\ last = Ran("connect", NULL, <<>>, SqlTrue, <<>>, NULL)
    /\ current_table = "teams"
    /\ teams_cache = {}
    /\ tournaments_cache = {}
    /\ Running

\* The keyword arguments of this run: the two fields the menu of the entity
\* passes, the primary key and a name that is no column, each with its own
\* value; at most MaxKw of them in any order.
KwPairs(t) ==
    CASE t = "USERS" ->
            {<<"role", 11>>, <<"email", 12>>, <<"user_id", 13>>,
             <<"is_admin", 14>>}
      [] t = "TEAMS" ->
            {<<"team_name", 11>>, <<"coach", 12>>, <<"team_id", 13>>,
             <<"is_admin", 14>>}
      [] t = "PLAYERS" ->
            {<<"team_id", 11>>, <<"role", 12>>, <<"player_id", 13>>,
             <<"is_admin", 14>>}
      [] t = "TOURNAMENTS" ->
            {<<"status", 11>>, <<"prize_pool", 12>>, <<"tournament_id", 13>>,
             <<"is_admin", 14>>}

KwArgs(t) ==
    {kw \in UNION {[1 .. n -> KwPairs(t)] : n \in 0 .. MaxKw} :
        \A i, j \in DOMAIN kw : kw[i][1] = kw[j][1] => i = j}

NextUpdate ==
    \/ \E kw \in KwArgs("USERS"), ok \in BOOLEAN : update_user(1, kw, ok)
    \/ \E kw \in KwArgs("TEAMS"), ok \in BOOLEAN : update_team(1, kw, ok)
    \/ \E kw \in KwArgs("PLAYERS"), ok \in BOOLEAN : update_player(1, kw, ok)
    \/ \E kw \in KwArgs("TOURNAMENTS"), ok \in BOOLEAN :
          update_tournament(1, kw, ok)

SpecUpdate == InitUpdate /\ [][NextUpdate]_vars

UpdateOps ==
    {"update_user", "update_team", "update_player", "update_tournament"}

UpdatedTable(op) ==
    CASE op = "update_user" -> "USERS"
      [] op = "update_team" -> "TEAMS"
      [] op = "update_player" -> "PLAYERS"
      [] op = "update_tournament" -> "TOURNAMENTS"

\* C1: every column name in the SET list of the UPDATE an update operation
\* emits is a member of the entity's allowed set, whatever keys the field map
\* holds; the statement is on the entity's own table and names each column
\* once.
C1_UpdateColumnsAllowed ==
    last.op \in UpdateOps =>
        \A i \in DOMAIN last.stmts :
            LET q == last.stmts[i].stmt
            IN  /\ q.kind = "UPDATE"
                /\ q.table = UpdatedTable(last.op)
                /\ Range(q.cols) \subseteq Allowed(q.table)
                /\ Range(q.cols) \subseteq {last.args[k][1] : k \in DOMAIN last.args}

\* An update whose field map held a key outside the allowed set next to an
\* allowed one has emitted its statement and succeeded.
C1_Witness ==
    /\ last.op = "update_tournament"
    /\ \E k \in DOMAIN last.args : last.args[k][1] \notin Allowed("TOURNAMENTS")
    /\ Len(last.stmts) = 1
    /\ last.stmts[1].stmt.cols # <<>>
    /\ last.ret = SqlTrue

ValueIn(M, c) == M[CHOOSE k \in DOMAIN M : M[k][1] = c][2]

\* C21: the UPDATE of an update operation binds the values of the filtered
\* map in the order of the columns of its SET list and the primary key last;
\* after a successful update(id, M) every allowed field of M holds in row id
\* the value M gave it (in the type of its column), every other field of
\* the row, every other row and every other table is as before.
C21_UpdateBindsInOrder ==
    [][(last'.op \in UpdateOps /\ last'.ret = SqlTrue) =>
          LET t == UpdatedTable(last'.op)
              id == last'.id
              M == last'.args
              q == last'.stmts[1].stmt
              named(c) == \E k \in DOMAIN M : M[k][1] = c
          IN  /\ Len(q.params) = Len(q.cols) + 1
              /\ q.params[Len(q.params)] = id
              /\ \A i \in DOMAIN q.cols : q.params[i] = ValueIn(M, q.cols[i])
              /\ DOMAIN db'[t] = DOMAIN db[t]
              /\ \A u \in Tables \ {t} : db'[u] = db[u]
              /\ \A k \in DOMAIN db[t] \ {id} : db'[t][k] = db[t][k]
              /\ id \in DOMAIN db[t] =>
                    \A c \in DOMAIN db[t][id] :
                        db'[t][id][c] =
                            IF c \in Allowed(t) /\ named(c)
                            THEN Coerce(c, ValueIn(M, c))
                            ELSE db[t][id][c]]_vars

\* update_tournament has set two columns of tournament 1, each to its value.
C21_Witness ==
    /\ last.op = "update_tournament"
    /\ last.ret = SqlTrue
    /\ Len(last.stmts[1].stmt.cols) = 2
    /\ 1 \in DOMAIN db["TOURNAMENTS"]
    /\ db["TOURNAMENTS"][1]["status"] = 11
    /\ db["TOURNAMENTS"][1]["prize_pool"] = 12

-----------------------------------------------------------------------------
(* Team deletion *)

DeleteTeamRan == last'.op = "delete_team" /\ last'.id \in DOMAIN db["TEAMS"]

\* C3: delete_team on a team that at least one active player references does
\* not remove the team row: after a call that reports success the row is
\* still returned by get_team_by_id, its is_active is FALSE, and the number
\* of dependents was reported.
C3_TeamWithActivePlayerIsKept ==
    [][(/\ DeleteTeamRan
        /\ get_players_by_team(db, last'.id, TRUE) # {}
        /\ last'.ret = SqlTrue)
       => /\ get_team_by_id(db', last'.id, TRUE) # NoRow
          /\ db'["TEAMS"][last'.id]["is_active"] = SqlFalse
          /\ last'.n # NULL]_vars

-----------------------------------------------------------------------------
(* Player deletion *)

\* C5: delete_player is a soft deactivation: a successful delete_player(id)
\* leaves the set of player rows as it was, sets is_active of row id to FALSE
\* and changes no other field of that row, no other player row and no other
\* table; get_player_by_id still returns the row.
C5_DeletePlayerIsSoft ==
    [][(last'.op = "delete_player" /\ last'.ret = SqlTrue)
       => /\ DOMAIN db'["PLAYERS"] = DOMAIN db["PLAYERS"]
          /\ \A p \in DOMAIN db["PLAYERS"] :
                db'["PLAYERS"][p] =
                   IF p = last'.id
                   THEN [db["PLAYERS"][p] EXCEPT !["is_active"] = SqlFalse]
                   ELSE db["PLAYERS"][p]
          /\ last'.id \in DOMAIN db["PLAYERS"]
                => get_player_by_id(db', last'.id, TRUE) # NoRow
          /\ \A t \in Tables \ {"PLAYERS"} : db'[t] = db[t]]_vars

\* A successful delete_player has deactivated one player of a team while
\* another player is still active.
C5_Witness ==
    /\ last.op = "delete_player"
    /\ last.ret = SqlTrue
    /\ last.id \in DOMAIN db["PLAYERS"]
    /\ db["PLAYERS"][last.id]["is_active"] = SqlFalse
    /\ db["PLAYERS"][last.id]["team_id"] # NULL
    /\ \E p \in DOMAIN db["PLAYERS"] : db["PLAYERS"][p]["is_active"] = SqlTrue

-----------------------------------------------------------------------------
(* Matches: both front ends on a store with three teams and one tournament *)

MaxBatch == 1

StoredTeams == {1, 2, 3}
StoredTournaments == {1}

MatchStore ==
    [t \in Tables |->
        CASE t = "TEAMS" -> [k \in StoredTeams |-> DefaultRow(t, k)]
          [] t = "TOURNAMENTS" -> [k \in StoredTournaments |-> DefaultRow(t, k)]
          [] OTHER -> <<>>]

InitMatch ==
    /\ db = MatchStore
    /\ nextId = [t \in Tables |->
                    CASE t = "TEAMS" -> 4
                      [] t = "TOURNAMENTS" -> 2
                      [] OTHER -> 1]
    /\ last = Ran("connect", NULL, <<>>, SqlTrue, <<>>, NULL)
    /\ current_table = "teams"
    /\ teams_cache = {}
    /\ tournaments_cache = {}
    /\ Running

\* Inputs.  The teams a user names as opponents, the scores typed at the
\* menu, the rows of an import file and the content of the match form.
Opponents == {1, 2}
MatchIds == 1 .. MaxMatches
Scores == {<<1, 0>>, <<0, 1>>, <<1, 1>>}
BO3 == 3
MatchDate == 20

PayloadRows ==
    {[tournament_id |-> 1, team1_id |-> 1, team2_id |-> 2,
      winner_team_id |-> 3],
     [tournament_id |-> 1, team1_id |-> 2, team2_id |-> 2,
      winner_team_id |-> NoneStr],
     [match_id |-> 1]}

RECURSIVE SeqsUpTo(_, _)
SeqsUpTo(S, n) ==
    IF n = 0 THEN {<<>>}
    ELSE LET shorter == SeqsUpTo(S, n - 1)
         IN  shorter \cup {Append(q, x) : q \in shorter, x \in S}

Payloads == SeqsUpTo(PayloadRows, MaxBatch)

PickList(cache, c) == {r[c] : r \in cache}

MatchForms ==
    {[tournament_id |-> tour, team1_id |-> t1, team2_id |-> t2,
      score_team1 |-> EmptyStr, score_team2 |-> EmptyStr,
      match_date |-> MatchDate, best_of |-> BO3, stage |-> NULL,
      winner_team_id |-> w] :
        tour \in PickList(tournaments_cache, "tournament_id"),
        t1 \in PickList(teams_cache, "team_id") \cap Opponents,
        t2 \in PickList(teams_cache, "team_id") \cap Opponents,
        w \in {NoWinnerText, EmptyStr}
                \cup PickList(teams_cache, "team_id")}

create_match_menu ==
    \E t1, t2 \in Opponents, ok \in BOOLEAN :
        create_match(1, t1, t2, MatchDate, BO3, NULL, ok)

record_result_menu ==
    \E mid \in MatchIds, s \in Scores, rok, ok \in BOOLEAN :
        record_result(mid, s[1], s[2], rok, ok)

import_matches ==
    \E data \in Payloads, oks \in SeqsUpTo(BOOLEAN, MaxBatch) :
        /\ Len(oks) = Len(data)
        /\ nextId["MATCHES"] + Len(data) <= MaxMatches + 1
        /\ DataImporter_import(data, "MATCHES", oks)

NextMatch ==
    \/ create_match_menu
    \/ record_result_menu
    \/ import_matches

SpecMatch == InitMatch /\ [][NextMatch]_vars

\* The same store with the windowed program working on it as well.
NextMatchGui ==
    \/ create_match_menu
    \/ record_result_menu
    \/ import_matches
    \/ \E rok1, rok2 \in BOOLEAN : switch_table("matches", rok1, rok2)
    \/ \E w \in MatchForms, ok, rok1, rok2 \in BOOLEAN :
           /\ current_table = "matches"
           /\ nextId["MATCHES"] <= MaxMatches
           /\ save("Hinzufuegen", NULL, w, ok, rok1, rok2)
    \/ \E id \in MatchIds, w \in MatchForms, ok, rok1, rok2 \in BOOLEAN :
           /\ current_table = "matches"
           /\ save("Bearbeiten", id, w, ok, rok1, rok2)

SpecMatchGui == InitMatch /\ [][NextMatchGui]_vars

-----------------------------------------------------------------------------
(* Matches: the self-match guard *)

\* C2: create_match called with the same team as both opponents returns None,
\* sends no statement to the store and leaves the store as it was.
C2_SelfMatchRefused ==
    [][(last'.op = "create_match" /\ last'.args[2] = last'.args[3]) =>
          /\ last'.ret = NULL
          /\ last'.stmts = <<>>
          /\ db' = db
          /\ nextId' = nextId]_vars

C2_Witness ==
    /\ last.op = "create_match"
    /\ last.args[2] = last.args[3]
    /\ last.ret = NULL
    /\ last.stmts = <<>>

-----------------------------------------------------------------------------
(* Matches: recording a result *)

Matches == db["MATCHES"]

\* C7: recording a result of s1 : s2 for a match sends at most one UPDATE,
\* which sets both scores and the winner: team 1 of the match when s1 > s2,
\* team 2 when s2 > s1, none on a tie.  When the store accepts it the three
\* columns of that match change together and nothing else does; otherwise
\* the store stays as it was.
C7_ResultIsRecordedAtOnce ==
    [][last'.op = "record_result" =>
          LET id == last'.id
              s1 == last'.args[1]
              s2 == last'.args[2]
          IN  /\ Len(last'.stmts) <= 1
              /\ IF last'.ret = SqlTrue
                 THEN /\ id \in DOMAIN Matches
                      /\ db' = [db EXCEPT !["MATCHES"][id] =
                                  [@ EXCEPT
                                     !["score_team1"] = s1,
                                     !["score_team2"] = s2,
                                     !["winner_team_id"] =
                                        IF s1 > s2 THEN Matches[id]["team1_id"]
                                        ELSE IF s2 > s1
                                             THEN Matches[id]["team2_id"]
                                             ELSE NULL]]
                 ELSE db' = db]_vars

C7_Witness ==
    /\ last.op = "record_result"
    /\ last.ret = SqlTrue
    /\ last.args[1] = last.args[2]
    /\ Matches[last.id]["score_team1"] = last.args[1]
    /\ Matches[last.id]["winner_team_id"] = NULL

-----------------------------------------------------------------------------
(* Matches: what every stored match satisfies *)

\* C8: the winner of every stored match is none or one of its two teams.
C8_WinnerIsOpponent ==
    \A m \in DOMAIN Matches :
        Matches[m]["winner_team_id"] \in
            {NULL, Matches[m]["team1_id"], Matches[m]["team2_id"]}

\* C9: the two teams of every stored match differ.
C9_OpponentsDiffer ==
    \A m \in DOMAIN Matches :
        Matches[m]["team1_id"] # NULL =>
            Matches[m]["team1_id"] # Matches[m]["team2_id"]

-----------------------------------------------------------------------------
(* Teams and players with the windowed program on the same store *)

NextGui ==
    \/ \E ok \in BOOLEAN : create_team(1, ok)
    \/ \E team \in TeamIds, ok \in BOOLEAN : create_player(1, team, ok)
    \/ \E p \in PlayerIds, ok \in BOOLEAN : delete_player(p, ok)
    \/ \E key \in {"teams", "players"}, rok1, rok2 \in BOOLEAN :
           switch_table(key, rok1, rok2)
    \/ \E id \in TeamIds \cup PlayerIds, ok, rok1, rok2 \in BOOLEAN :
           delete_record(id, ok, rok1, rok2)

SpecGui == Init /\ [][NextGui]_vars

\* C6: no delete entry point removes a Player row: whatever delete_player
\* (menu) and delete_record (window) are applied to, every Player row that was
\* in the store before is in the store after.
C6_PlayerRowsStay ==
    [][last'.op \in {"delete_player", "delete_record"} =>
          \A p \in DOMAIN db["PLAYERS"] : p \in DOMAIN db'["PLAYERS"]]_vars

-----------------------------------------------------------------------------
(* SearchOperations.search_tournaments *)

\* The characters of the texts of this section, by code.
StrOf(text) ==
    CASE text = 11 -> <<"a", "b">>
      [] text = 12 -> <<"b">>
      [] text = 13 -> <<"c">>
      [] text = 14 -> <<"_">>
      [] OTHER -> <<>>

\* LIKE of the store: % stands for any run of characters, _ for any one.
RECURSIVE LikeMatch(_, _)
LikeMatch(str, pattern) ==
    IF pattern = <<>> THEN str = <<>>
    ELSE IF Head(pattern) = "%"
         THEN \/ LikeMatch(str, Tail(pattern))
              \/ str # <<>> /\ LikeMatch(Tail(str), pattern)
         ELSE /\ str # <<>>
              /\ Head(pattern) \in {"_", Head(str)}
              /\ LikeMatch(Tail(str), Tail(pattern))

SqlLike(v, pattern) == v # NULL /\ LikeMatch(StrOf(v), pattern)
SqlEq(v, param) == v # NULL /\ param # NULL /\ v = param

TermCond == "(tournament_name LIKE %s OR location LIKE %s)"
TierCond == "tier=%s"
StatusCond == "status=%s"

SearchPattern(term) == <<"%">> \o StrOf(term) \o <<"%">>

SearchConds(term, tier, status) ==
    (IF NonEmpty(term) THEN <<TermCond>> ELSE <<>>)
        \o (IF NonEmpty(tier) THEN <<TierCond>> ELSE <<>>)
        \o (IF NonEmpty(status) THEN <<StatusCond>> ELSE <<>>)

SearchParams(term, tier, status) ==
    (IF NonEmpty(term) THEN <<SearchPattern(term), SearchPattern(term)>>
                       ELSE <<>>)
        \o (IF NonEmpty(tier) THEN <<tier>> ELSE <<>>)
        \o (IF NonEmpty(status) THEN <<status>> ELSE <<>>)

Placeholders(cond) == IF cond = TermCond THEN 2 ELSE 1

RECURSIVE ParamsBefore(_, _)
ParamsBefore(conds, i) ==
    IF i = 1 THEN 0
    ELSE ParamsBefore(conds, i - 1) + Placeholders(conds[i - 1])

\* The truth of one condition on a row, given the parameters bound to it.
CondHolds(row, cond, ps) ==
    CASE cond = TermCond ->
            SqlLike(row["tournament_name"], ps[1]) \/ SqlLike(row["location"], ps[2])
      [] cond = TierCond -> SqlEq(row["tier"], ps[1])
      [] cond = StatusCond -> SqlEq(row["status"], ps[1])

JoinOr(truths) == \E i \in DOMAIN truths : truths[i]

\* " AND ".join(conds)
JoinAnd(truths) == \A i \in DOMAIN truths : truths[i]

WhereHolds(row, conds, params) ==
    IF conds = <<>> THEN TRUE
    ELSE JoinAnd([i \in DOMAIN conds |->
            CondHolds(row, conds[i],
                      SubSeq(params, ParamsBefore(conds, i) + 1,
                             ParamsBefore(conds, i) + Placeholders(conds[i])))])

\* The result is the set of keys of the rows returned (their order, by
\* start_date, is left out).
\* The condition that is true of every row.
Tautology == "1=1"

\* A WHERE clause that always starts with the tautology.
SearchWhereFromTautology(conds) == <<Tautology>> \o conds

\* where = " AND ".join(conds) if conds else "1=1", as the clauses joined.
SearchWhere(conds) == IF conds = <<>> THEN <<Tautology>> ELSE conds

search_tournaments(term, tier, status, ok) ==
    LET conds == SearchConds(term, tier, status)
        params == SearchParams(term, tier, status)
        rows == db["TOURNAMENTS"]
        found == Database_fetch_all(
                     {k \in DOMAIN rows : WhereHolds(rows[k], conds, params)},
                     ok)
    IN  /\ last' = Ran("search_tournaments", NULL, <<term, tier, status>>,
                       found,
                       <<[conds |-> conds, where |-> SearchWhere(conds),
                          params |-> params, ok |-> ok]>>, NULL)
        /\ UNCHANGED <<db, nextId, gui, run>>

MaxTournaments == 2

\* Rows of the store: names "ab" and "c", location none or "b", two tiers
\* (21, 22) and two states (31, 32).
TournamentRows ==
    {[DefaultRow("TOURNAMENTS", NULL) EXCEPT
         !["tournament_name"] = name, !["location"] = loc,
         !["tier"] = tier, !["status"] = status] :
       name \in {11, 13}, loc \in {NULL, 12},
       tier \in {21, 22}, status \in {31, 32}}

InitSearch ==
    /\ \E rows \in [1 .. MaxTournaments -> TournamentRows] :
          db = [EmptyStore EXCEPT !["TOURNAMENTS"] =
                  [k \in DOMAIN rows |->
                      [rows[k] EXCEPT !["tournament_id"] = k]]]
    /\ nextId = [t \in Tables |->
                    IF t = "TOURNAMENTS" THEN MaxTournaments + 1 ELSE 1]
    /\ last = Ran("connect", NULL, <<>>, SqlTrue, <<>>, NULL)
    /\ current_table = "teams"
    /\ teams_cache = {}
    /\ tournaments_cache = {}
    /\ Running

\* Calls: the term none, empty, "b" or "_"; the tier none, empty or 21; the
\* status none or 31.
NextSearch ==
    \E term \in {NULL, EmptyStr, 12, 14}, tier \in {NULL, EmptyStr, 21},
       status \in {NULL, 31}, ok \in BOOLEAN :
        search_tournaments(term, tier, status, ok)

SpecSearch == InitSearch /\ [][NextSearch]_vars

Tournaments == db["TOURNAMENTS"]

Supplied(v) == v \notin {NULL, EmptyStr}

MatchesTerm(row, term) ==
    \/ SqlLike(row["tournament_name"], SearchPattern(term))
    \/ SqlLike(row["location"], SearchPattern(term))

\* C10: when the store answers the query of search_tournaments(term, tier,
\* status): with no filter supplied the result is every Tournament row; with
\* only a tier it is exactly the rows of that tier; with several filters it
\* is exactly the rows that satisfy each of them (name or location like the
\* term, tier equal, status equal).  None and the empty text are "absent".
C10_SearchFilters ==
    (last.op = "search_tournaments" /\ last.stmts[1].ok) =>
        LET term == last.args[1]
            tier == last.args[2]
            status == last.args[3]
        IN  /\ (~Supplied(term) /\ ~Supplied(tier) /\ ~Supplied(status)) =>
                   last.ret = DOMAIN Tournaments
            /\ (~Supplied(term) /\ Supplied(tier) /\ ~Supplied(status)) =>
                   last.ret = {k \in DOMAIN Tournaments :
                                  Tournaments[k]["tier"] = tier}
            /\ last.ret =
                  {k \in DOMAIN Tournaments :
                      /\ Supplied(term) => MatchesTerm(Tournaments[k], term)
                      /\ Supplied(tier) => Tournaments[k]["tier"] = tier
                      /\ Supplied(status) => Tournaments[k]["status"] = status}

\* A search by term, tier and status that finds one of two tournaments of
\* the tier.
C10_Witness ==
    /\ last.op = "search_tournaments"
    /\ last.stmts[1].ok
    /\ Supplied(last.args[1]) /\ Supplied(last.args[2]) /\ Supplied(last.args[3])
    /\ Cardinality(last.ret) = 1
    /\ \A k \in DOMAIN Tournaments : Tournaments[k]["tier"] = last.args[2]

\* The clauses and the parameters the filters that are present call for, in
\* the order term, tier, status.
ClausesOf(term, tier, status) ==
    (IF Supplied(term) THEN <<TermCond>> ELSE <<>>)
        \o (IF Supplied(tier) THEN <<TierCond>> ELSE <<>>)
        \o (IF Supplied(status) THEN <<StatusCond>> ELSE <<>>)

BoundOf(term, tier, status) ==
    (IF Supplied(term) THEN <<SearchPattern(term), SearchPattern(term)>>
                       ELSE <<>>)
        \o (IF Supplied(tier) THEN <<tier>> ELSE <<>>)
        \o (IF Supplied(status) THEN <<status>> ELSE <<>>)

\* C22: a filter that is absent adds no clause and no parameter to the query
\* of search_tournaments; with k filters present the WHERE clause is the k
\* clauses of those filters joined by AND and the parameters are theirs in
\* clause order; with no filter present the WHERE clause is the one
\* condition 1=1, true of every row, and there is no parameter.
C22_SearchClauses ==
    last.op = "search_tournaments" =>
        LET q == last.stmts[1]
            clauses == ClausesOf(last.args[1], last.args[2], last.args[3])
        IN  /\ q.params = BoundOf(last.args[1], last.args[2], last.args[3])
            /\ clauses # <<>> => q.where = clauses
            /\ clauses = <<>> => q.where = <<Tautology>>

\* C22 as stated: with no filter present the query has no condition, and
\* no tautology stands in for one.
C22_NoTautology ==
    last.op = "search_tournaments" =>
        LET q == last.stmts[1]
        IN  /\ q.where = ClausesOf(last.args[1], last.args[2], last.args[3])
            /\ \A i \in DOMAIN q.where : q.where[i] # Tautology

\* A search with a term and a tier and no status: two clauses, three
\* parameters.
C22_Witness ==
    /\ last.op = "search_tournaments"
    /\ Supplied(last.args[1]) /\ Supplied(last.args[2])
    /\ ~Supplied(last.args[3])
    /\ last.stmts[1].where = <<TermCond, TierCond>>
    /\ Len(last.stmts[1].params) = 3

-----------------------------------------------------------------------------
(* Import of teams: the command-line importer on an empty store *)

MaxRows == 2

\* Rows of an import file for TEAMS: with an empty text, with the key column,
\* with nothing but the key column, with a key that is no column of the
\* import list, with the text 'None', with nothing but an empty text.
TeamPayloadRows ==
    {[team_name |-> 11, coach |-> EmptyStr],
     [team_id |-> 7, team_name |-> 12],
     [team_id |-> 7],
     [team_name |-> 13, is_admin |-> 1],
     [team_name |-> 11, coach |-> NoneStr],
     [coach |-> EmptyStr]}

TeamPayloads == SeqsUpTo(TeamPayloadRows, MaxRows)

import_teams ==
    \E data \in TeamPayloads, oks \in SeqsUpTo(BOOLEAN, MaxRows) :
        /\ Len(oks) = Len(data)
        /\ nextId["TEAMS"] + Len(data) <= MaxRows + 1
        /\ DataImporter_import(data, "TEAMS", oks)

import_teams_json ==
    \E data \in TeamPayloads, oks \in SeqsUpTo(BOOLEAN, MaxRows),
       rok1, rok2 \in BOOLEAN :
        /\ Len(oks) = Len(data)
        /\ nextId["TEAMS"] + Len(data) <= MaxRows + 1
        /\ import_json(data, oks, rok1, rok2)

import_teams_csv ==
    \E data \in TeamPayloads, oks \in SeqsUpTo(BOOLEAN, MaxRows),
       rok1, rok2 \in BOOLEAN :
        /\ Len(oks) = Len(data)
        /\ nextId["TEAMS"] + Len(data) <= MaxRows + 1
        /\ import_csv(data, oks, rok1, rok2)

\* The command-line program: teams are created in the menu and imported.
NextImport ==
    \/ \E ok \in BOOLEAN : create_team(1, ok)
    \/ import_teams

SpecImport == Init /\ [][NextImport]_vars

\* The same with the importers of the windowed program on the same store.
NextImportGui ==
    \/ import_teams
    \/ import_teams_json
    \/ import_teams_csv

SpecImportGui == Init /\ [][NextImportGui]_vars

\* The statements of the operation that ran last which the store accepted
\* and which it refused.
AcceptedOf(stmts) == SelectSeq(stmts, LAMBDA x : x.ok)
RefusedOf(stmts) == SelectSeq(stmts, LAMBDA x : ~x.ok)

\* The rows of the batch that name no column of the import list.
EmptyRowsOf(data, t) ==
    SelectSeq(data, LAMBDA row : DOMAIN row \cap Range(ImportCols(t)) = {})

\* C11: the importer reports N - F for a batch of N rows of which F fail in
\* the store.
C11_ReportsAllButFailed ==
    last.op = "import" =>
        last.ret = Len(last.args) - Len(RefusedOf(last.stmts))

\* C11, amended: of a batch of N rows, the S rows that name no column of
\* the import list are passed over; every other row is sent to the store,
\* in order, whatever became of the rows before it; with F of them refused
\* the importer reports N - F - S of N, and exactly the rows of the
\* accepted statements are added to the store, in order, under new keys.
C11_ReportsInsertedRows ==
    [][last'.op = "import" =>
          LET data == last'.args
              t == "TEAMS"
              sent == SelectSeq(data, LAMBDA row :
                          DOMAIN row \cap Range(ImportCols(t)) # {})
              done == AcceptedOf(last'.stmts)
          IN  /\ data # <<>> => last'.n = Len(data)
              /\ Len(last'.stmts) = Len(sent)
              /\ \A i \in DOMAIN sent :
                     last'.stmts[i].stmt = ImportStatement(t, sent[i])
              /\ last'.ret = Len(data) - Len(RefusedOf(last'.stmts))
                                 - Len(EmptyRowsOf(data, t))
              /\ DOMAIN db'[t] =
                     DOMAIN db[t] \cup
                         {nextId[t] + j - 1 : j \in DOMAIN done}
              /\ \A k \in DOMAIN db[t] : db'[t][k] = db[t][k]
              /\ \A j \in DOMAIN done :
                     db'[t][nextId[t] + j - 1] =
                         Assigned(DefaultRow(t, nextId[t] + j - 1),
                                  done[j].stmt)]_vars

ImportOps == {"import", "import_json", "import_csv"}

\* C12: whatever keys the rows of an import file carry, every INSERT an
\* import sends (command line or window) names only columns of the import
\* list of the entity, and never its primary key.
C12_ImportColumnsListed ==
    last.op \in ImportOps =>
        \A i \in DOMAIN last.stmts :
            LET q == last.stmts[i].stmt
            IN  /\ PK(q.table) \notin Range(q.cols)
                /\ Range(q.cols) \subseteq Range(ImportCols(q.table))

\* The values a payload gives a column, in any of its rows.
PayloadValues(data, c) ==
    {data[r][c] : r \in {x \in DOMAIN data : c \in DOMAIN data[x]}}

\* C24: every value an import (command line, or import_csv of the window)
\* binds to a column is a value the payload gives that column, passed on as
\* it is, or null where the payload gives the empty text, the text 'None' or
\* null; the empty text and the text 'None' are never bound.
C24_ImportNormalizes ==
    last.op \in {"import", "import_csv"} =>
        \A i \in DOMAIN last.stmts :
            LET q == last.stmts[i].stmt
            IN  \A j \in DOMAIN q.cols :
                    /\ q.params[j] \notin {EmptyStr, NoneStr}
                    /\ \E v \in PayloadValues(last.args, q.cols[j]) :
                          q.params[j] =
                              (IF v \in {EmptyStr, NoneStr, NULL} THEN NULL
                               ELSE v)

\* The rows of a payload that hold insertable data: a column of the import
\* list with a value that is neither empty, nor 'None', nor null.
Insertable(data, t) ==
    SelectSeq(data, LAMBDA row :
        \E c \in DOMAIN row \cap Range(ImportCols(t)) :
            row[c] \notin {EmptyStr, NoneStr, NULL})

\* C25: an import (command line, or import_json of the window) sends no
\* INSERT for a row without insertable data, adds no row for it and does not
\* count it: there are no more statements, no more rows added and no higher
\* count than there are rows with insertable data, and the total reported by
\* the command-line importer is the length of the batch.
C25_HollowRowsSkipped ==
    [][last'.op \in {"import", "import_json"} =>
          LET full == Len(Insertable(last'.args, "TEAMS"))
          IN  /\ Len(last'.stmts) <= full
              /\ last'.ret <= full
              /\ Cardinality(DOMAIN db'["TEAMS"]) <=
                    Cardinality(DOMAIN db["TEAMS"]) + full
              /\ (last'.op = "import" /\ last'.args # <<>>) =>
                    last'.n = Len(last'.args)]_vars

\* C26: the count import_json and import_csv report is the number of rows
\* the import added to the store; a row the store refused is not counted,
\* and the rows after it are sent all the same.
C26_GuiCountsInserted ==
    [][last'.op \in {"import_json", "import_csv"} =>
          /\ last'.ret = Len(AcceptedOf(last'.stmts))
          /\ last'.ret =
                Cardinality(DOMAIN db'["TEAMS"]) - Cardinality(DOMAIN db["TEAMS"])
      ]_vars

\* A batch of two rows whose first row the store refused and whose second
\* row was inserted.
C11_Witness ==
    /\ last.op = "import"
    /\ Len(last.stmts) = 2
    /\ ~last.stmts[1].ok
    /\ last.stmts[2].ok
    /\ last.ret = 1
    /\ Cardinality(DOMAIN db["TEAMS"]) >= 1

-----------------------------------------------------------------------------
(* Export of the tournaments and import of the exported file *)

MaxStored == 1

\* Tournaments of the store: named "ab" or "None", with or without a start
\* date, with or without prize money.
StoredRows ==
    {[DefaultRow("TOURNAMENTS", NULL) EXCEPT
         !["tournament_name"] = name, !["start_date"] = day,
         !["prize_pool"] = prize] :
       name \in {11, NoneStr}, day \in {NULL, 41}, prize \in {NULL, 81}}

InitExport ==
    /\ \E rows \in [1 .. MaxStored -> StoredRows] :
          db = [EmptyStore EXCEPT !["TOURNAMENTS"] =
                  [k \in DOMAIN rows |->
                      [rows[k] EXCEPT !["tournament_id"] = k]]]
    /\ nextId = [t \in Tables |->
                    IF t = "TOURNAMENTS" THEN MaxStored + 1 ELSE 1]
    /\ last = Ran("connect", NULL, <<>>, SqlTrue, <<>>, NULL)
    /\ current_table = "teams"
    /\ teams_cache = {}
    /\ tournaments_cache = {}
    /\ Running

export_menu ==
    \E table \in {"TOURNAMENTS", "GAMES"}, fmt \in {"json", "csv"},
       rok \in BOOLEAN :
        /\ pc = "menu"
        /\ export_table(table, fmt, rok)

import_menu ==
    \E oks \in SeqsUpTo(BOOLEAN, MaxStored) :
        /\ pc = "menu"
        /\ file # NoFile => /\ Len(oks) = Len(file.rows)
                            /\ nextId["TOURNAMENTS"] + Len(file.rows)
                                   <= 2 * MaxStored + 1
        /\ file = NoFile => oks = <<>>
        /\ import_from_file("TOURNAMENTS", oks)

delete_tournament_menu ==
    \E id \in 1 .. MaxStored, ok \in BOOLEAN :
        /\ pc = "menu"
        /\ delete_tournament(id, ok)

\* The windowed program on the same store: the table shown, and its export.
export_window ==
    \/ \E key \in {"teams", "tournaments"}, rok1, rok2 \in BOOLEAN :
          pc = "menu" /\ switch_table(key, rok1, rok2)
    \/ \E rok \in BOOLEAN : pc = "menu" /\ export_csv(rok)

NextExport ==
    \/ export_menu
    \/ import_menu
    \/ delete_tournament_menu
    \/ export_window

SpecExport == InitExport /\ [][NextExport]_vars

\* C13: export_table on a table never fails to write its file, and the
\* import of a file that holds the rows of a non-empty table into the empty
\* table of that entity, every row accepted by the store, gives as many rows
\* as were exported, each with the value the exported row had in every
\* column of the import list (a null as null).
C13_RoundTrip ==
    [][/\ last'.op = "export_table" => last'.ret # Raised
       /\ (/\ last'.op = "import"
           /\ file # NoFile
           /\ file.whole
           /\ file.data # <<>>
           /\ db[file.table] = <<>>
           /\ Len(last'.stmts) = Len(file.rows)
           /\ \A i \in DOMAIN last'.stmts : last'.stmts[i].ok) =>
              LET t == file.table
              IN  /\ Cardinality(DOMAIN db'[t]) = Len(file.data)
                  /\ \A i \in DOMAIN file.data :
                        /\ nextId[t] + i - 1 \in DOMAIN db'[t]
                        /\ \A c \in Range(ImportCols(t)) :
                              db'[t][nextId[t] + i - 1][c] = file.data[i][c]
      ]_vars

\* C27: the JSON export of a table completes and writes one entry for each
\* row it read, with a date and a date-time as their ISO texts, a null as
\* null, and no value the interchange format cannot hold.
C27_DatesSerialized ==
    (/\ last.op = "export_table"
     /\ last.args[1] \in Tables
     /\ last.args[2] = "json") =>
        /\ last.ret = FilePath
        /\ file.whole
        /\ Len(file.rows) = Len(file.data)
        /\ \A i \in DOMAIN file.rows : \A c \in DOMAIN file.rows[i] :
              LET v == file.data[i][c]
                  w == file.rows[i][c]
              IN  /\ v \in Dates \cup Datetimes => w = isoformat(v)
                  /\ v = NULL => w = NULL
                  /\ JsonWritable(w)

\* The table a CSV export is for.
CsvExported ==
    IF last'.op = "export_csv" THEN TableOf(last'.args[1]) ELSE last'.args[1]

\* C20: a CSV export, of the exporter or of the window, of a table without
\* rows writes no file, returns the empty result and raises nothing; an
\* export that writes has read every row of the table, and its file has the
\* columns of the first row as its header and one line for each row.
C20_CsvExport ==
    [][(\/ last'.op = "export_csv"
        \/ /\ last'.op = "export_table"
           /\ last'.args[1] \in Tables
           /\ last'.args[2] = "csv") =>
          LET t == CsvExported
              keys == Ascending(DOMAIN db[t])
          IN  /\ last'.ret \in {EmptyStr, NULL, FilePath}
              /\ db[t] = <<>> => last'.n = NULL
              /\ last'.n = NULL => file' = file /\ last'.ret # FilePath
              /\ last'.n # NULL =>
                    /\ file'.fmt = "csv"
                    /\ file'.whole
                    /\ file'.header = DOMAIN db[t][keys[1]]
                    /\ Len(file'.rows) = Len(keys)
                    /\ last'.n = Len(keys)]_vars

\* The exporter was asked for the CSV file of the tournaments when there was
\* none: it returned the empty text and there is no file.
C20_Witness ==
    /\ last.op = "export_table"
    /\ last.args = <<"TOURNAMENTS", "csv">>
    /\ db["TOURNAMENTS"] = <<>>
    /\ last.ret = EmptyStr
    /\ file = NoFile

-----------------------------------------------------------------------------
(* Database.execute as one unit *)

\* C14: an operation that sends one write statement through Database.execute
\* either has the statement's effect in the store and success as execute's
\* return value, or leaves the store as it was and has failure as execute's
\* return value.
C14_ExecuteAtomicAndReported ==
    [][Len(last'.stmts) = 1 =>
          LET x == last'.stmts[1]
          IN  IF x.ok
              THEN db' = Apply(db, nextId, x.stmt) /\ x.ret = SqlTrue
              ELSE db' = db /\ x.ret = SqlFalse]_vars

-----------------------------------------------------------------------------
(* Errors that leave an operation *)

\* C15: no operation of the repository, the exporter or the importer ends
\* with an error that nobody caught: each one returns a value to its caller.
C15_NoUncaughtError == last.ret # Raised

-----------------------------------------------------------------------------
(* Start and end of a run of either program *)

\* connect(): the session and its cursor, or a MySQLError from
\* mysql.connector.connect (no session), or a MySQLError from
\* connection.cursor (the session is set, the cursor is not).
ConnectOutcomes == {"connected", "no session", "no cursor"}

Database_connect(outcome) ==
    /\ connection' = IF outcome = "no session" THEN connection ELSE "open"
    /\ cursor' = IF outcome = "connected" THEN "open" ELSE cursor

\* Where the caller of connect() goes on: CLI.run to its menu loop,
\* CS2EsportApp.__init__ to the window and its event loop, and both to the end
\* of the run when connect() returned False.
AfterConnectGoesOn(at, connected) == IF at = "run" THEN "menu" ELSE "window"

AfterConnect(at, connected) ==
    IF connected THEN AfterConnectGoesOn(at, connected) ELSE "ended"

start(outcome) ==
    /\ pc \in {"run", "init"}
    /\ Database_connect(outcome)
    /\ pc' = AfterConnect(pc, outcome = "connected")
    /\ last' = Ran("connect", NULL, <<pc>>, Bool(outcome = "connected"),
                   <<>>, NULL)
    /\ UNCHANGED <<db, nextId, gui, file>>

\* The end of the menu loop (choice 0) and the closing of the window.
leave ==
    /\ pc \in {"menu", "window"}
    /\ Database_disconnect
    /\ pc' = "ended"
    /\ last' = Ran("disconnect", NULL, <<pc>>, NULL, <<>>, NULL)
    /\ UNCHANGED <<db, nextId, gui, file>>

\* disconnect() called on a Database outside the loop of its program: before
\* connect() was called, or after the run ended.
disconnect ==
    /\ pc \in {"run", "init", "ended"}
    /\ Database_disconnect
    /\ last' = Ran("disconnect", NULL, <<pc>>, NULL, <<>>, NULL)
    /\ UNCHANGED <<db, nextId, gui, pc, file>>

InitStart ==
    /\ \/ db = EmptyStore /\ nextId = [t \in Tables |-> 1]
       \/ /\ db = MatchStore
          /\ nextId = [t \in Tables |->
                          CASE t = "TEAMS" -> 4
                            [] t = "TOURNAMENTS" -> 2
                            [] OTHER -> 1]
    /\ last = Ran("Database", NULL, <<>>, NULL, <<>>, NULL)
    /\ current_table = "teams"
    /\ teams_cache = {}
    /\ tournaments_cache = {}
    /\ connection = "none"
    /\ cursor = "none"
    /\ pc \in {"run", "init"}
    /\ file = NoFile

NextStart ==
    \/ \E outcome \in ConnectOutcomes : start(outcome)
    \/ leave
    \/ disconnect
    \/ pc = "menu" /\ \E ok \in BOOLEAN : create_team(1, ok)
    \/ pc = "menu" /\ \E team \in TeamIds, ok \in BOOLEAN :
                          create_player(1, team, ok)
    \/ pc = "menu" /\ \E p \in PlayerIds, ok \in BOOLEAN : delete_player(p, ok)
    \/ pc = "window" /\ \E key \in {"teams", "tournaments"},
                           rok1, rok2 \in BOOLEAN :
                            switch_table(key, rok1, rok2)
    \/ pc = "window" /\ \E id \in StoredTeams, ok, rok1, rok2 \in BOOLEAN :
                            delete_record(id, ok, rok1, rok2)

SpecStart == InitStart /\ [][NextStart]_vars

\* C16: when connect() returns False the run is over, and in a run that is
\* over nothing but disconnect() happens: no operation is called, no
\* statement is sent, the store stays as it is.
C16_FailedConnectEndsRun ==
    [][/\ (last'.op = "connect" /\ last'.ret = SqlFalse) => pc' = "ended"
       /\ pc = "ended" => /\ pc' = "ended"
                          /\ last'.op = "disconnect"
                          /\ last'.stmts = <<>>
                          /\ db' = db]_vars

C16_Witness ==
    /\ pc = "ended"
    /\ cursor = "none"
    /\ last.op = "connect"
    /\ last.ret = SqlFalse

\* C17: disconnect() returns in every state of the connection; what was
\* absent stays absent and what was set is closed.
C17_DisconnectClosesWhatIsSet ==
    [][last'.op = "disconnect" =>
          /\ last'.ret # Raised
          /\ cursor' = (IF cursor = "none" THEN "none" ELSE "closed")
          /\ connection' =
                (IF connection = "none" THEN "none" ELSE "closed")]_vars

\* C17 as stated: after disconnect() on a Database whose connect() was never
\* called or has failed (the cursor was never set), neither the connection
\* handle nor the cursor is set.
C17_DisconnectLeavesNothing ==
    (last.op = "disconnect" /\ cursor = "none") =>
        connection = "none"

C17_Witness ==
    /\ last.op = "disconnect"
    /\ pc = "ended"
    /\ connection = "none"
    /\ cursor = "none"

-----------------------------------------------------------------------------
(* The windowed program: the caches behind the pick-lists *)

MaxCached == 2

CachedKeys == {"teams", "tournaments"}

NameField(key) == IF key = "teams" THEN "team_name" ELSE "tournament_name"

\* The form of the add / edit dialog with nothing but the name filled in, or
\* with nothing filled in at all.
CacheForm(key, name) ==
    [f \in Range(FormFields(key)) |->
        IF f = NameField(key) THEN name ELSE EmptyStr]

\* A file of at most one row for the table on view.
CacheFiles(key) == {<<>>, <<[f \in {NameField(key)} |-> 11]>>}

cache_add ==
    \E name \in {11, EmptyStr}, ok, rok1, rok2 \in BOOLEAN :
        /\ current_table \in CachedKeys
        /\ nextId[TableOf(current_table)] <= MaxCached
        /\ save("Hinzufuegen", NULL, CacheForm(current_table, name), ok,
                rok1, rok2)

cache_edit ==
    \E id \in 1 .. MaxCached, ok, rok1, rok2 \in BOOLEAN :
        /\ current_table \in CachedKeys
        /\ id \in DOMAIN db[TableOf(current_table)]
        /\ save("Bearbeiten", id, CacheForm(current_table, 12), ok, rok1, rok2)

cache_delete ==
    \E id \in 1 .. MaxCached, ok, rok1, rok2 \in BOOLEAN :
        /\ current_table \in CachedKeys
        /\ delete_record(id, ok, rok1, rok2)

cache_import ==
    \E csv, rok1, rok2 \in BOOLEAN :
        \E data \in CacheFiles(current_table),
           oks \in SeqsUpTo(BOOLEAN, 1) :
            /\ current_table \in CachedKeys
            /\ Len(oks) = Len(data)
            /\ nextId[TableOf(current_table)] <= MaxCached
            /\ IF csv THEN import_csv(data, oks, rok1, rok2)
                      ELSE import_json(data, oks, rok1, rok2)

NextCache ==
    \/ \E key \in CachedKeys, rok1, rok2 \in BOOLEAN :
           switch_table(key, rok1, rok2)
    \/ cache_add
    \/ cache_edit
    \/ cache_delete
    \/ cache_import

SpecCache == Init /\ [][NextCache]_vars

\* What a SELECT of the cached columns yields on the store as it is.
TeamsInStore ==
    CacheOf(db, "TEAMS", {"team_id", "team_name", "abbreviation"}, TRUE)
TournamentsInStore ==
    CacheOf(db, "TOURNAMENTS", {"tournament_id", "tournament_name"}, TRUE)

\* A handler that ran to its end: the table switch, the delete, the imports,
\* and the save of the dialog when it had something to save.
CacheHandlers ==
    {"switch_table", "delete_record", "import_json", "import_csv", "save"}
HandlerCompleted ==
    /\ last.op \in CacheHandlers
    /\ last.op = "save" => last.stmts # <<>>

-----------------------------------------------------------------------------
(* One run of the command-line program, from connect() to its return *)

\* CLI.run before connect(): the store holds tournaments, with and without
\* a start date.
InitRun ==
    /\ \E rows \in [1 .. MaxStored -> StoredRows] :
          db = [EmptyStore EXCEPT !["TOURNAMENTS"] =
                  [k \in DOMAIN rows |->
                      [rows[k] EXCEPT !["tournament_id"] = k]]]
    /\ nextId = [t \in Tables |->
                    IF t = "TOURNAMENTS" THEN MaxStored + 1 ELSE 1]
    /\ last = Ran("Database", NULL, <<>>, NULL, <<>>, NULL)
    /\ current_table = "teams"
    /\ teams_cache = {}
    /\ tournaments_cache = {}
    /\ connection = "none"
    /\ cursor = "none"
    /\ pc = "run"
    /\ file = NoFile

\* The menu loop: choice 0 (leave), or a handler; the export of a table with
\* a date in it raises out of its handler and out of the loop.
NextRun ==
    \/ \E outcome \in ConnectOutcomes : start(outcome)
    \/ leave
    \/ export_menu
    \/ delete_tournament_menu
    \/ pc = "menu" /\ \E ok \in BOOLEAN : create_team(1, ok)
    \/ pc = "menu" /\ \E rok, ok \in BOOLEAN : delete_team(1, rok, ok)

SpecRun == InitRun /\ [][NextRun]_vars

\* C30: in a run whose connect() succeeded, every way out of the menu loop,
\* choice 0 or an error raised by a handler, calls disconnect() on the open
\* connection and ends the run; inside the loop the connection is not
\* closed; and once it is closed no step follows: no statement is sent and
\* disconnect() is not called again.
C30_DisconnectOnceOnExit ==
    [][/\ (pc = "menu" /\ pc' # "menu") =>
              /\ pc' = "ended"
              /\ connection = "open" /\ cursor = "open"
              /\ connection' = "closed" /\ cursor' = "closed"
       /\ (pc = "menu" /\ pc' = "menu") =>
              /\ connection' = "open" /\ cursor' = "open"
       /\ connection # "closed"
       /\ pc # "ended"]_vars

\* The run ended by an error raised in the export, connection closed.
C30_Witness ==
    /\ pc = "ended"
    /\ last.op = "export_table"
    /\ last.ret = Raised
    /\ connection = "closed"
    /\ cursor = "closed"

-----------------------------------------------------------------------------
(* delete_team, statement by statement, beside another caller of the store *)

\* The players a delete that looked again at the moment of its statement
\* would find.
RecheckedPlayers(found, d, id) == DeleteTeamCheck(d, id, TRUE)

\* if players: the players the SELECT returned, whatever the store holds by
\* the time the second statement is sent.
CheckedPlayers(found, d, id) == found

\* The first statement of delete_team: the SELECT on PLAYERS.
delete_team_check(id, rok) ==
    /\ pc = "menu"
    /\ pc' = "delete_team"
    /\ last' = Ran("delete_team_check", id, <<>>, DeleteTeamCheck(db, id, rok),
                   <<[ok |-> rok]>>, NULL)
    /\ UNCHANGED <<db, nextId, gui, connection, cursor, file>>

\* The second statement of delete_team: the UPDATE or the DELETE.
delete_team_act(ok) ==
    LET id == last.id
        players == CheckedPlayers(last.ret, db, id)
        q == DeleteTeamStatement(id, players)
    IN  /\ pc = "delete_team"
        /\ pc' = "menu"
        /\ db' = Database_execute(db, nextId, q, ok)
        /\ last' = Ran("delete_team", id, <<>>, Bool(Accepted(q, ok)),
                       <<Issued(q, ok)>>,
                       IF players # {} THEN Cardinality(players) ELSE NULL)
        /\ UNCHANGED <<nextId, gui, connection, cursor, file>>

\* Another caller of the same store adds an active player of a team, at any
\* moment, also between the two statements of delete_team.
external_create_player(team_id) ==
    LET q == Insert("PLAYERS", <<"nickname", "team_id">>, <<2, team_id>>)
    IN  /\ nextId["PLAYERS"] <= MaxPlayers
        /\ db' = Apply(db, nextId, q)
        /\ nextId' = Counted(nextId, q, TRUE)
        /\ UNCHANGED <<last, gui, run>>

NextRace ==
    \/ pc = "menu" /\ \E ok \in BOOLEAN : create_team(1, ok)
    \/ pc = "menu" /\ \E team \in TeamIds, ok \in BOOLEAN :
                          create_player(1, team, ok)
    \/ pc = "menu" /\ \E p \in PlayerIds, ok \in BOOLEAN : delete_player(p, ok)
    \/ \E id \in TeamIds, rok \in BOOLEAN : delete_team_check(id, rok)
    \/ \E ok \in BOOLEAN : delete_team_act(ok)
    \/ \E team \in TeamIds : external_create_player(team)

SpecRace == Init /\ [][NextRace]_vars

\* C28: the second statement of delete_team follows from what the first one
\* returned and from nothing else: when the check found no player it is the
\* DELETE of the team, whatever another caller has added since, and when the
\* store accepts it the team row is gone while every player row stays.
C28_ActFollowsCheck ==
    [][(pc = "delete_team" /\ last'.op = "delete_team" /\ last.ret = {}) =>
          /\ last'.stmts[1].stmt = Delete("TEAMS", <<last.id>>)
          /\ last'.stmts[1].ok =>
                /\ last.id \notin DOMAIN db'["TEAMS"]
                /\ db'["PLAYERS"] = db["PLAYERS"]]_vars

\* The store answered the check of delete_team with no player, the team is
\* still there, and by now an active player references it: the DELETE that
\* follows removes the team of an active player.
C28_Witness ==
    /\ pc = "delete_team"
    /\ last.op = "delete_team_check"
    /\ last.stmts[1].ok
    /\ last.ret = {}
    /\ last.id \in DOMAIN db["TEAMS"]
    /\ get_players_by_team(db, last.id, TRUE) # {}

====
